---- MODULE Spec2Model ----
(***************************************************************************)
(* The real-time broadcast core of service-mesh-observatory:               *)
(*   ConnectionManager  (app/core/websocket.py)                            *)
(*   MetricsCollector   (app/services/metrics_collector.py)                *)
(*   websocket_endpoint (app/main.py)                                      *)
(* and the user store of POST /register (app/api/v1/auth.py).              *)
(* Everything runs on one asyncio event loop: the code between two awaits  *)
(* is one atomic step, and every await is a point where the other          *)
(* coroutines may run.                                                     *)
(***************************************************************************)
EXTENDS Integers, Sequences, FiniteSets, TLC

\* ---------------------------------------------------------------- bounds
MaxConns == 2
MaxTasks == 2
MaxStoppers == 1
MaxPolls == 2
MaxStalled == 1
MaxAcks == 1
MaxPubs == 1

Conns == 1..MaxConns
Tasks == 1..MaxTasks
Stoppers == 1..MaxStoppers
Pubs == 1..MaxPubs
\* request_rate values the metrics source may report
Rates == {42, 7}

VARIABLES
    active_connections,   \* ConnectionManager.active_connections (a list)
    connection_metadata,  \* ConnectionManager.connection_metadata: ws -> messages_sent
    ep,                   \* websocket_endpoint position per connection
    recv,                 \* per connection, the messages the transport wrote to it
    stalled,              \* connections whose transport write never completes
    is_running,           \* MetricsCollector.is_running
    task_ref,             \* MetricsCollector._task (0 is None)
    tpc,                  \* per loop task, the await it is suspended at
    cancel_req,           \* per loop task, Task.cancel() was called on it
    bcast,                \* per loop task, the frame of its broadcast() call
    now,                  \* logical clock: the number of polls begun
    spc,                  \* per stop() caller, its position
    swait,                \* per stop() caller, the task it awaits
    sstart,               \* per stop() caller, start() created a task since it was called
    overlap,              \* a lifecycle call ran while a stop() was suspended
    src_rate,             \* per loop task, the request_rate its last fetch returned
    unreg,                \* connections disconnect() has been called for
    accept_failed,        \* connections whose accept handshake raised
    psend,                \* per connection, the send_personal_message() call to it
    nrecv,                \* per connection, the client messages the endpoint received
    ppc,                  \* per direct caller of a broadcast helper, its position
    pframe,               \* per direct caller, the frame of its broadcast() call
    USERS_DB,             \* auth.USERS_DB: email -> user record
    response,             \* the last POST /register: its request and its response
    stats_out             \* what the last get_connection_stats() call returned

vars == <<active_connections, connection_metadata, ep, recv, stalled,
          is_running, task_ref, tpc, cancel_req, bcast, now,
          spc, swait, sstart, overlap, src_rate, unreg, accept_failed,
          psend, nrecv, ppc, pframe, USERS_DB, response, stats_out>>

registry == <<active_connections, connection_metadata>>
collector == <<is_running, task_ref, tpc, cancel_req, bcast, now>>
callers == <<spc, swait, sstart, overlap>>
direct == <<psend, nrecv, ppc, pframe>>
auth == <<USERS_DB, response>>

\* ---------------------------------------------------------------- helpers
Range(s) == {s[i] : i \in 1..Len(s)}

\* a remove() that drops x and everything behind it
ListRemove_truncate(s, x) ==
    IF \E i \in 1..Len(s) : s[i] = x
    THEN SubSeq(s, 1, (CHOOSE i \in 1..Len(s) : s[i] = x /\ \A j \in 1..(i - 1) : s[j] # x) - 1)
    ELSE s

\* list.remove(x): drops the first occurrence of x
RECURSIVE ListRemove(_, _)
ListRemove(s, x) ==
    IF s = <<>> THEN <<>>
    ELSE IF Head(s) = x THEN Tail(s)
    ELSE <<Head(s)>> \o ListRemove(Tail(s), x)

\* the registry as a value: [active |-> list, meta |-> dict]
Reg == [active |-> active_connections, meta |-> connection_metadata]

\* ---------------------------------------------------------------- ConnectionManager
\* a connect() that puts the new connection at the head of the list
connect_prepend(reg, ws) ==
    [active |-> <<ws>> \o reg.active,
     meta   |-> [c \in DOMAIN reg.meta \cup {ws} |-> IF c = ws THEN 0 ELSE reg.meta[c]]]

\* connect(), after `await websocket.accept()` has returned
connect(reg, ws) ==
    [active |-> Append(reg.active, ws),
     meta   |-> [c \in DOMAIN reg.meta \cup {ws} |-> IF c = ws THEN 0 ELSE reg.meta[c]]]

\* a disconnect() that removes the list entry and keeps the bookkeeping
disconnect_list_only(reg, ws) ==
    [active |-> ListRemove(reg.active, ws), meta |-> reg.meta]

\* a disconnect() that deletes the bookkeeping and leaves the list alone
disconnect_meta_only(reg, ws) ==
    [active |-> reg.active,
     meta   |-> [c \in DOMAIN reg.meta \ {ws} |-> reg.meta[c]]]

\* disconnect(): the state it leaves (when `del` raises, the list entry is
\* already gone and the dict is as it was)
disconnect(reg, ws) ==
    IF ws \in Range(reg.active)
    THEN [active |-> ListRemove(reg.active, ws),
          meta   |-> [c \in DOMAIN reg.meta \ {ws} |-> reg.meta[c]]]
    ELSE reg


\* a disconnect() without `if websocket in self.active_connections`: remove()
\* raises ValueError for a connection that is not in the list
disconnect_raises_unguarded(reg, ws) ==
    ws \notin Range(reg.active) \/ ws \notin DOMAIN reg.meta

\* disconnect() raises: remove() is guarded by the membership test, the `del`
\* raises KeyError when the list holds a connection the dict does not
disconnect_raises(reg, ws) ==
    ws \in Range(reg.active) /\ ws \notin DOMAIN reg.meta

\* broadcast() without its clean-up loop
cleanup_skipped(reg, disconnected) == reg

\* `for connection in disconnected: self.disconnect(connection)`; the loop
\* ends at the first disconnect() that raises
RECURSIVE cleanup(_, _)
cleanup(reg, disconnected) ==
    IF disconnected = <<>> THEN reg
    ELSE IF disconnect_raises(reg, Head(disconnected))
    THEN disconnect(reg, Head(disconnected))
    ELSE cleanup(disconnect(reg, Head(disconnected)), Tail(disconnected))

\* the positions of the clean-up loop at which disconnect() raises
cleanup_raising(reg, disconnected) ==
    {i \in 1..Len(disconnected) :
        disconnect_raises(cleanup(reg, SubSeq(disconnected, 1, i - 1)), disconnected[i])}

cleanup_raises(reg, disconnected) == cleanup_raising(reg, disconnected) # {}

\* the connections the clean-up loop calls disconnect() for
cleanup_calls(reg, disconnected) ==
    {disconnected[i] : i \in {j \in 1..Len(disconnected) :
        \A k \in cleanup_raising(reg, disconnected) : j <= k}}

\* a count that is never zero
get_connection_count_plus(reg) == Len(reg.active) + 1

get_connection_count(reg) == Len(reg.active)

RECURSIVE SumMeta(_, _)
SumMeta(meta, S) ==
    IF S = {} THEN 0
    ELSE LET c == CHOOSE x \in S : TRUE IN meta[c] + SumMeta(meta, S \ {c})

get_connection_stats(reg) ==
    [active_connections  |-> Len(reg.active),
     total_messages_sent |-> SumMeta(reg.meta, DOMAIN reg.meta)]

\* send_personal_message() without the disconnect() of its except branch
send_personal_failed_keep(reg, ws) == [reg |-> reg, raised |-> FALSE]

\* send_personal_message(), the except branch after send_json raised: log,
\* disconnect(); what disconnect() raises leaves the call
send_personal_failed(reg, ws) ==
    [reg |-> disconnect(reg, ws), raised |-> disconnect_raises(reg, ws)]

\* send_personal_message(), the try body after `await websocket.send_json`
\* returned: the counter update, whose KeyError lands in the except branch
send_personal_ok(reg, ws) ==
    IF ws \in DOMAIN reg.meta
    THEN [reg |-> [reg EXCEPT !.meta[ws] = @ + 1], raised |-> FALSE]
    ELSE send_personal_failed(reg, ws)

\* the frame of a broadcast() call: res is where the call stands, it the list
\* iterator's index, cur the connection whose send_text is awaited, disconnected
\* the local list; snap, conc and failed record the call's history
NoFrame == [res |-> "none", it |-> 0, cur |-> 0, disconnected |-> <<>>,
            message |-> [type |-> "none"], snap |-> {}, conc |-> FALSE, failed |-> {}]

\* ---------------------------------------------------------------- MetricsCollector
\* a _collect_metrics() that drops the overview's value for the default
collect_ok_default(v) == [timestamp |-> now, request_rate |-> 0]

\* _collect_metrics(): the dict built from the overview, or the error dict
collect_ok(v) == [timestamp |-> now, request_rate |-> v]
collect_failed == [timestamp |-> now, error |-> "fetch failed"]

\* broadcast_metrics_update(): the envelope
metrics_update(metrics) ==
    [type |-> "metrics_update", timestamp |-> now, data |-> metrics]

\* the other broadcast helpers' envelopes
topology_update(topology) ==
    [type |-> "topology_update", timestamp |-> now, data |-> topology]

alert_envelope(alert) ==
    [type |-> "alert", timestamp |-> now,
     severity |-> IF "severity" \in DOMAIN alert THEN alert.severity ELSE "info",
     data |-> alert]

cert_expiry_warning(cert_info) ==
    [type |-> "cert_expiry_warning", timestamp |-> now, data |-> cert_info]

\* the endpoint's acknowledgement of a client message
ack == [type |-> "ack", message |-> "received"]

\* json.dumps(message) raises TypeError: the payload holds a value that is
\* no JSON type (kept under the key "object")
json_dumps_raises(message) == "object" \in DOMAIN message.data

ActiveTasks == {t \in Tasks : tpc[t] \notin {"none", "done"}}


\* ---------------------------------------------------------------- broadcast()
\* a try body without the counter update
send_ok_nocount(reg, f) == [reg |-> reg, frame |-> f]

\* the try body after `await connection.send_text(message_json)` returned:
\* the counter update, whose KeyError (metadata already deleted) lands in the
\* except branch like any other Exception
send_ok(reg, f) ==
    IF f.cur \in DOMAIN reg.meta
    THEN [reg |-> [reg EXCEPT !.meta[f.cur] = @ + 1], frame |-> f]
    ELSE [reg |-> reg, frame |-> [f EXCEPT !.disconnected = Append(@, f.cur)]]

\* broadcast() without its try/except: the write's exception leaves the call
send_failed_raise(reg, f) ==
    [reg |-> reg, frame |-> [f EXCEPT !.res = "raised", !.failed = @ \cup {f.cur}]]

\* an except branch that unregisters the failed connection at once
send_failed_eager(reg, f) ==
    [reg |-> disconnect(reg, f.cur),
     frame |-> [f EXCEPT !.disconnected = Append(@, f.cur), !.failed = @ \cup {f.cur}]]

\* the except branch after send_text raised: log, remember the connection
send_failed(reg, f) ==
    [reg |-> reg,
     frame |-> [f EXCEPT !.disconnected = Append(@, f.cur), !.failed = @ \cup {f.cur}]]

\* the list iterator's next step, then either the next send_text or the rest
\* of broadcast(): the clean-up loop and the return
broadcast_next(reg, f) ==
    IF f.res = "raised"
    THEN [reg |-> reg, frame |-> [f EXCEPT !.cur = 0], pc |-> "sleep"]
    ELSE IF f.it < Len(reg.active)
    THEN [reg |-> reg,
          frame |-> [f EXCEPT !.it = @ + 1, !.cur = reg.active[f.it + 1]],
          pc |-> "send"]
    ELSE [reg |-> cleanup(reg, f.disconnected),
          frame |-> [f EXCEPT !.res = IF cleanup_raises(reg, f.disconnected)
                                      THEN "raised" ELSE "returned",
                              !.cur = 0],
          pc |-> "sleep"]

\* broadcast(message) up to its first await; json.dumps stands before the
\* loop and outside every try, so what it raises leaves the call
broadcast_begin(reg, message) ==
    IF json_dumps_raises(message)
    THEN [reg |-> reg,
          frame |-> [NoFrame EXCEPT !.res = "raised", !.message = message,
                                    !.snap = Range(reg.active)],
          pc |-> "sleep"]
    ELSE broadcast_next(reg, [NoFrame EXCEPT !.res = "running", !.message = message,
                                             !.snap = Range(reg.active)])

\* a registry call that runs while a broadcast is suspended in send_text
MarkConcurrent ==
    [t \in Tasks |-> IF tpc[t] = "send" /\ bcast[t].res = "running"
                     THEN [bcast[t] EXCEPT !.conc = TRUE] ELSE bcast[t]]

\* the same for the direct callers' broadcasts
MarkDirect ==
    [p \in Pubs |-> IF ppc[p] = "send" /\ pframe[p].res = "running"
                    THEN [pframe[p] EXCEPT !.conc = TRUE] ELSE pframe[p]]

\* ---------------------------------------------------------------- websocket_endpoint
\* connection_manager.connect(websocket), the accept handshake succeeding
Connect(c) ==
    /\ ep[c] = "new"
    /\ LET r == connect(Reg, c) IN
         /\ active_connections' = r.active
         /\ connection_metadata' = r.meta
    /\ ep' = [ep EXCEPT ![c] = "open"]
    /\ bcast' = MarkConcurrent
    /\ pframe' = MarkDirect
    /\ UNCHANGED <<recv, stalled, is_running, task_ref, tpc, cancel_req, now, callers>>
    /\ UNCHANGED <<src_rate, unreg, accept_failed, psend, nrecv, ppc, auth, stats_out>>

\* a connect() that swallows what accept() raised and registers the connection
AcceptFail_swallowed(c) ==
    /\ ep[c] = "new"
    /\ LET r == connect(Reg, c) IN
         /\ active_connections' = r.active
         /\ connection_metadata' = r.meta
    /\ ep' = [ep EXCEPT ![c] = "open"]
    /\ accept_failed' = accept_failed \cup {c}
    /\ UNCHANGED <<recv, stalled, collector, callers, src_rate, unreg, direct, auth, stats_out>>

\* `await websocket.accept()` raises: connect() ends there, before its append,
\* and the endpoint, which calls it outside its try, ends with the exception
AcceptFail(c) ==
    /\ ep[c] = "new"
    /\ ep' = [ep EXCEPT ![c] = "refused"]
    /\ accept_failed' = accept_failed \cup {c}
    /\ UNCHANGED <<registry, recv, stalled, collector, callers>>
    /\ UNCHANGED <<src_rate, unreg, direct, auth, stats_out>>

\* the endpoint's except branches: disconnect(), then the handler ends (with
\* the exception, should disconnect() raise one)
handler_end(reg, c) == IF disconnect_raises(reg, c) THEN "raised" ELSE "closed"

\* receive_text() raises WebSocketDisconnect (or anything else): disconnect()
Close(c) ==
    /\ ep[c] = "open"
    /\ LET r == disconnect(Reg, c) IN
         /\ active_connections' = r.active
         /\ connection_metadata' = r.meta
    /\ ep' = [ep EXCEPT ![c] = handler_end(Reg, c)]
    /\ unreg' = unreg \cup {c}
    /\ bcast' = MarkConcurrent
    /\ pframe' = MarkDirect
    /\ UNCHANGED <<recv, stalled, is_running, task_ref, tpc, cancel_req, now, callers>>
    /\ UNCHANGED <<src_rate, accept_failed, psend, nrecv, ppc, auth, stats_out>>

\* receive_text() returns a client message: the handler goes on to its ack
Receive(c) ==
    /\ ep[c] = "open"
    /\ nrecv[c] < MaxAcks
    /\ nrecv' = [nrecv EXCEPT ![c] = @ + 1]
    /\ ep' = [ep EXCEPT ![c] = "ack"]
    /\ UNCHANGED <<registry, recv, stalled, collector, callers>>
    /\ UNCHANGED <<src_rate, unreg, accept_failed, psend, ppc, pframe, auth, stats_out>>

\* `await websocket.send_json({"type": "ack", ...})` returns: back to receive_text
AckOk(c) ==
    /\ ep[c] = "ack"
    /\ recv' = [recv EXCEPT ![c] = Append(@, ack)]
    /\ ep' = [ep EXCEPT ![c] = "open"]
    /\ UNCHANGED <<registry, stalled, collector, callers>>
    /\ UNCHANGED <<src_rate, unreg, accept_failed, direct, auth, stats_out>>

\* an except branch that logs the error and ends the handler without disconnect()
AckFail_nodisconnect(c) ==
    /\ ep[c] = "ack"
    /\ ep' = [ep EXCEPT ![c] = "closed"]
    /\ UNCHANGED <<registry, recv, stalled, collector, callers>>
    /\ UNCHANGED <<src_rate, unreg, accept_failed, direct, auth, stats_out>>

\* the ack's send_json raises: the except branch, disconnect()
AckFail(c) ==
    /\ ep[c] = "ack"
    /\ LET r == disconnect(Reg, c) IN
         /\ active_connections' = r.active
         /\ connection_metadata' = r.meta
    /\ ep' = [ep EXCEPT ![c] = handler_end(Reg, c)]
    /\ unreg' = unreg \cup {c}
    /\ bcast' = MarkConcurrent
    /\ pframe' = MarkDirect
    /\ UNCHANGED <<recv, stalled, is_running, task_ref, tpc, cancel_req, now, callers>>
    /\ UNCHANGED <<src_rate, accept_failed, psend, nrecv, ppc, auth, stats_out>>

\* ---------------------------------------------------------------- send_personal_message()
\* the message a direct caller sends: an alert envelope it built itself
personal_message == alert_envelope([name |-> "direct"])

\* send_personal_message(message, c) up to `await websocket.send_json(message)`
PersonalCall(c) ==
    /\ psend[c] = "idle"
    /\ ep[c] \in {"open", "ack", "closed"}
    /\ psend' = [psend EXCEPT ![c] = "write"]
    /\ UNCHANGED <<registry, ep, recv, stalled, collector, callers>>
    /\ UNCHANGED <<src_rate, unreg, accept_failed, nrecv, ppc, pframe, auth, stats_out>>

PersonalDone(c, r, called) ==
    /\ active_connections' = r.reg.active
    /\ connection_metadata' = r.reg.meta
    /\ psend' = [psend EXCEPT ![c] = IF r.raised THEN "raised" ELSE "returned"]
    /\ unreg' = IF called THEN unreg \cup {c} ELSE unreg
    /\ bcast' = IF called THEN MarkConcurrent ELSE bcast
    /\ pframe' = IF called THEN MarkDirect ELSE pframe
    /\ UNCHANGED <<ep, stalled, is_running, task_ref, tpc, cancel_req, now, callers>>
    /\ UNCHANGED <<src_rate, accept_failed, nrecv, ppc, auth, stats_out>>

\* send_json returns
PersonalOk(c) ==
    /\ psend[c] = "write"
    /\ recv' = [recv EXCEPT ![c] = Append(@, personal_message)]
    /\ PersonalDone(c, send_personal_ok(Reg, c), c \notin DOMAIN connection_metadata)

\* send_json raises
PersonalFail(c) ==
    /\ psend[c] = "write"
    /\ UNCHANGED recv
    /\ PersonalDone(c, send_personal_failed(Reg, c), TRUE)

\* a caller reads get_connection_stats(): no await, one step, reads only
Stats ==
    /\ stats_out' = get_connection_stats(Reg)
    /\ UNCHANGED <<registry, ep, recv, stalled, collector, callers>>
    /\ UNCHANGED <<src_rate, unreg, accept_failed, direct, auth>>

\* ---------------------------------------------------------------- direct broadcasts
\* what a caller hands to a broadcast helper
Payloads ==
    {[name |-> "svc"], [name |-> "svc", severity |-> "critical"],
     [name |-> "svc", object |-> "set"]}

Envelopes ==
    {topology_update(d) : d \in Payloads} \cup {alert_envelope(d) : d \in Payloads}
    \cup {cert_expiry_warning(d) : d \in Payloads}

\* where a direct caller stands after a step of its broadcast() call
direct_pc(r) ==
    IF r.pc = "send" THEN "send"
    ELSE IF r.frame.res = "raised" THEN "raised" ELSE "returned"

\* the connections whose disconnect() a step of broadcast() called
step_calls(r, n) ==
    IF r.frame.res = "running" /\ n.pc # "send"
    THEN cleanup_calls(r.reg, r.frame.disconnected) ELSE {}

DirectStep(p, r) ==
    LET n == broadcast_next(r.reg, r.frame) IN
      /\ active_connections' = n.reg.active
      /\ connection_metadata' = n.reg.meta
      /\ pframe' = [pframe EXCEPT ![p] = n.frame]
      /\ ppc' = [ppc EXCEPT ![p] = direct_pc(n)]
      /\ unreg' = unreg \cup step_calls(r, n)

\* a caller awaits broadcast_topology_update / _alert / _cert_expiry_warning
DirectCall(p) ==
    /\ ppc[p] = "idle"
    /\ \E m \in Envelopes :
         LET r == broadcast_begin(Reg, m) IN
           /\ pframe' = [pframe EXCEPT ![p] = r.frame]
           /\ ppc' = [ppc EXCEPT ![p] = direct_pc(r)]
    /\ UNCHANGED <<registry, ep, recv, stalled, collector, callers>>
    /\ UNCHANGED <<src_rate, unreg, accept_failed, psend, nrecv, auth, stats_out>>

\* the direct caller's `await connection.send_text(message_json)` returns
DirectSendOk(p) ==
    /\ ppc[p] = "send"
    /\ recv' = [recv EXCEPT ![pframe[p].cur] = Append(@, pframe[p].message)]
    /\ DirectStep(p, send_ok(Reg, pframe[p]))
    /\ UNCHANGED <<ep, stalled, collector, callers>>
    /\ UNCHANGED <<src_rate, accept_failed, psend, nrecv, auth, stats_out>>

\* the direct caller's `await connection.send_text(message_json)` raises
DirectSendFail(p) ==
    /\ ppc[p] = "send"
    /\ DirectStep(p, send_failed(Reg, pframe[p]))
    /\ UNCHANGED <<ep, recv, stalled, collector, callers>>
    /\ UNCHANGED <<src_rate, accept_failed, psend, nrecv, auth, stats_out>>

\* the transport of c stops draining: a write to it never completes
Stall(c) ==
    /\ c \notin stalled
    /\ Cardinality(stalled) < MaxStalled
    /\ \E t \in Tasks : tpc[t] = "send" /\ bcast[t].cur = c
    /\ stalled' = stalled \cup {c}
    /\ UNCHANGED <<registry, ep, recv, collector, callers>>
    /\ UNCHANGED <<src_rate, unreg, accept_failed, direct, auth, stats_out>>


\* ---------------------------------------------------------------- start() / stop()
NewTask == Cardinality({t \in Tasks : tpc[t] # "none"}) + 1

\* start() without its `if self.is_running` guard
Start_unguarded ==
    /\ NewTask \in Tasks
    /\ is_running' = TRUE
    /\ task_ref' = NewTask
    /\ tpc' = [tpc EXCEPT ![NewTask] = "created"]
    /\ sstart' = [s \in Stoppers |-> TRUE]
    /\ overlap' = (overlap \/ \E s \in Stoppers : spc[s] = "await")
    /\ UNCHANGED <<registry, ep, recv, stalled, cancel_req, bcast, now, spc, swait>>
    /\ UNCHANGED <<src_rate, unreg, accept_failed, direct, auth, stats_out>>

\* a start() that creates a task only when the Collector has never had one
Start_reuse ==
    /\ is_running \/ NewTask \in Tasks
    /\ overlap' = (overlap \/ \E s \in Stoppers : spc[s] = "await")
    /\ IF is_running
       THEN UNCHANGED <<is_running, task_ref, tpc, sstart>>
       ELSE /\ is_running' = TRUE
            /\ sstart' = [s \in Stoppers |-> TRUE]
            /\ IF task_ref # 0
               THEN UNCHANGED <<task_ref, tpc>>
               ELSE /\ task_ref' = NewTask
                    /\ tpc' = [tpc EXCEPT ![NewTask] = "created"]
    /\ UNCHANGED <<registry, ep, recv, stalled, cancel_req, bcast, now, spc, swait>>
    /\ UNCHANGED <<src_rate, unreg, accept_failed, direct, auth, stats_out>>

\* start(): no await inside, so it is one step
Start ==
    /\ is_running \/ NewTask \in Tasks
    /\ overlap' = (overlap \/ \E s \in Stoppers : spc[s] = "await")
    /\ IF is_running
       THEN UNCHANGED <<is_running, task_ref, tpc, sstart>>
       ELSE /\ is_running' = TRUE
            /\ task_ref' = NewTask
            /\ tpc' = [tpc EXCEPT ![NewTask] = "created"]
            /\ sstart' = [s \in Stoppers |-> TRUE]
    /\ UNCHANGED <<registry, ep, recv, stalled, cancel_req, bcast, now, spc, swait>>
    /\ UNCHANGED <<src_rate, unreg, accept_failed, direct, auth, stats_out>>

\* stop() without its `if self._task` guard: cancel() on None raises
StopCall_unguarded(s) ==
    /\ spc[s] # "await"
    /\ is_running' = FALSE
    /\ overlap' = (overlap \/ \E o \in Stoppers : spc[o] = "await")
    /\ sstart' = [sstart EXCEPT ![s] = FALSE]
    /\ swait' = [swait EXCEPT ![s] = task_ref]
    /\ IF task_ref = 0
       THEN /\ spc' = [spc EXCEPT ![s] = "raised"]
            /\ UNCHANGED cancel_req
       ELSE IF tpc[task_ref] # "done"
       THEN /\ cancel_req' = [cancel_req EXCEPT ![task_ref] = TRUE]
            /\ spc' = [spc EXCEPT ![s] = "await"]
       ELSE /\ spc' = [spc EXCEPT ![s] = "returned"]
            /\ UNCHANGED cancel_req
    /\ UNCHANGED <<registry, ep, recv, stalled, task_ref, tpc, bcast, now>>
    /\ UNCHANGED <<src_rate, unreg, accept_failed, direct, auth, stats_out>>

\* stop() without its `await self._task`
StopCall_noawait(s) ==
    /\ spc[s] # "await"
    /\ is_running' = FALSE
    /\ overlap' = (overlap \/ \E o \in Stoppers : spc[o] = "await")
    /\ sstart' = [sstart EXCEPT ![s] = FALSE]
    /\ swait' = [swait EXCEPT ![s] = task_ref]
    /\ spc' = [spc EXCEPT ![s] = "returned"]
    /\ cancel_req' = IF task_ref # 0 /\ tpc[task_ref] # "done"
                     THEN [cancel_req EXCEPT ![task_ref] = TRUE] ELSE cancel_req
    /\ UNCHANGED <<registry, ep, recv, stalled, task_ref, tpc, bcast, now>>
    /\ UNCHANGED <<src_rate, unreg, accept_failed, direct, auth, stats_out>>

\* stop() up to `await self._task`: clear the flag, cancel the task; awaiting a
\* task that is already done (or no task at all) does not suspend
StopCall(s) ==
    /\ spc[s] # "await"
    /\ is_running' = FALSE
    /\ overlap' = (overlap \/ \E o \in Stoppers : spc[o] = "await")
    /\ sstart' = [sstart EXCEPT ![s] = FALSE]
    /\ swait' = [swait EXCEPT ![s] = task_ref]
    /\ IF task_ref # 0 /\ tpc[task_ref] # "done"
       THEN /\ cancel_req' = [cancel_req EXCEPT ![task_ref] = TRUE]
            /\ spc' = [spc EXCEPT ![s] = "await"]
       ELSE /\ spc' = [spc EXCEPT ![s] = "returned"]
            /\ UNCHANGED cancel_req
    /\ UNCHANGED <<registry, ep, recv, stalled, task_ref, tpc, bcast, now>>
    /\ UNCHANGED <<src_rate, unreg, accept_failed, direct, auth, stats_out>>

\* `await self._task` resumes once the task has ended; CancelledError is swallowed
StopReturn(s) ==
    /\ spc[s] = "await"
    /\ tpc[swait[s]] = "done"
    /\ spc' = [spc EXCEPT ![s] = "returned"]
    /\ UNCHANGED <<registry, ep, recv, stalled, collector, swait, sstart, overlap>>
    /\ UNCHANGED <<src_rate, unreg, accept_failed, direct, auth, stats_out>>

\* ---------------------------------------------------------------- _collection_loop()
\* `while self.is_running:` then _collect_metrics() up to its await
loop_head == IF is_running THEN "fetch" ELSE "done"

\* the first step of a created task
TaskStart(t) ==
    /\ tpc[t] = "created"
    /\ ~cancel_req[t]
    /\ now < MaxPolls
    /\ tpc' = [tpc EXCEPT ![t] = loop_head]
    /\ now' = IF is_running THEN now + 1 ELSE now
    /\ UNCHANGED <<registry, ep, recv, stalled, is_running, task_ref, cancel_req,
                   bcast, callers>>
    /\ UNCHANGED <<src_rate, unreg, accept_failed, direct, auth, stats_out>>

\* an iteration that goes back to the loop head without sleeping when nobody
\* is connected
after_collect_nosleep(reg, metrics) ==
    IF Len(reg.active) > 0
    THEN [reg |-> reg,
          frame |-> [NoFrame EXCEPT !.res = "running", !.it = 1, !.cur = reg.active[1],
                                    !.message = [type |-> "metrics_update",
                                                 timestamp |-> now, data |-> metrics],
                                    !.snap = Range(reg.active)],
          pc |-> "send"]
    ELSE [reg |-> reg, frame |-> NoFrame, pc |-> "fetch"]

\* the rest of an iteration once _collect_metrics() has its dict: broadcast when
\* somebody is connected, then sleep
after_collect(reg, metrics) ==
    IF get_connection_count(reg) > 0
    THEN broadcast_begin(reg, metrics_update(metrics))
    ELSE [reg |-> reg, frame |-> NoFrame, pc |-> "sleep"]

Collected(t, metrics) ==
    /\ tpc[t] = "fetch"
    /\ ~cancel_req[t]
    /\ LET r == after_collect(Reg, metrics) IN
         /\ active_connections' = r.reg.active
         /\ connection_metadata' = r.reg.meta
         /\ bcast' = [bcast EXCEPT ![t] = r.frame]
         /\ tpc' = [tpc EXCEPT ![t] = r.pc]
    /\ UNCHANGED <<ep, recv, stalled, is_running, task_ref, cancel_req, now, callers>>
    /\ UNCHANGED <<unreg, accept_failed, direct, auth, stats_out>>

\* get_mesh_overview() returns an overview
FetchOk(t) ==
    \E v \in Rates :
        /\ Collected(t, collect_ok(v))
        /\ src_rate' = [src_rate EXCEPT ![t] = v]

\* get_mesh_overview() raises: _collect_metrics() returns the error dict
FetchFail(t) ==
    /\ Collected(t, collect_failed)
    /\ src_rate' = [src_rate EXCEPT ![t] = 0]

Sent(t, r) ==
    LET n == broadcast_next(r.reg, r.frame) IN
      /\ active_connections' = n.reg.active
      /\ connection_metadata' = n.reg.meta
      /\ bcast' = [bcast EXCEPT ![t] = n.frame]
      /\ tpc' = [tpc EXCEPT ![t] = n.pc]
      /\ unreg' = unreg \cup step_calls(r, n)

\* `await connection.send_text(message_json)` returns
SendOk(t) ==
    /\ tpc[t] = "send"
    /\ ~cancel_req[t]
    /\ bcast[t].cur \notin stalled
    /\ recv' = [recv EXCEPT ![bcast[t].cur] = Append(@, bcast[t].message)]
    /\ Sent(t, send_ok(Reg, bcast[t]))
    /\ UNCHANGED <<ep, stalled, is_running, task_ref, cancel_req, now, callers>>
    /\ UNCHANGED <<src_rate, accept_failed, direct, auth, stats_out>>

\* `await connection.send_text(message_json)` raises
SendFail(t) ==
    /\ tpc[t] = "send"
    /\ ~cancel_req[t]
    /\ bcast[t].cur \notin stalled
    /\ Sent(t, send_failed(Reg, bcast[t]))
    /\ UNCHANGED <<ep, recv, stalled, is_running, task_ref, cancel_req, now, callers>>
    /\ UNCHANGED <<src_rate, accept_failed, direct, auth, stats_out>>

\* `await asyncio.sleep(...)` returns: back to the loop head
SleepDone(t) ==
    /\ tpc[t] = "sleep"
    /\ ~cancel_req[t]
    /\ now < MaxPolls
    /\ tpc' = [tpc EXCEPT ![t] = loop_head]
    /\ now' = IF is_running THEN now + 1 ELSE now
    /\ bcast' = [bcast EXCEPT ![t] = NoFrame]
    /\ src_rate' = [src_rate EXCEPT ![t] = 0]
    /\ UNCHANGED <<registry, ep, recv, stalled, is_running, task_ref, cancel_req, callers>>
    /\ UNCHANGED <<unreg, accept_failed, direct, auth, stats_out>>

\* the cancellation caught by the `except Exception` handlers around the fetch
\* and the send, as where CancelledError is an Exception
Cancelled_swallowed(t) ==
    /\ cancel_req[t]
    /\ tpc[t] \in {"created", "fetch", "send", "sleep"}
    /\ IF tpc[t] \in {"fetch", "send"}
       THEN /\ tpc' = [tpc EXCEPT ![t] = "sleep"]
            /\ cancel_req' = [cancel_req EXCEPT ![t] = FALSE]
            /\ bcast' = [bcast EXCEPT ![t] = NoFrame]
       ELSE /\ tpc' = [tpc EXCEPT ![t] = "done"]
            /\ bcast' = [bcast EXCEPT ![t] = NoFrame]
            /\ UNCHANGED cancel_req
    /\ src_rate' = [src_rate EXCEPT ![t] = 0]
    /\ UNCHANGED <<registry, ep, recv, stalled, is_running, task_ref, now, callers>>
    /\ UNCHANGED <<unreg, accept_failed, direct, auth, stats_out>>

\* the cancelled task's next step: CancelledError is thrown at its await, no
\* handler of the loop catches it (they catch Exception), the task ends
Cancelled(t) ==
    /\ cancel_req[t]
    /\ tpc[t] \in {"created", "fetch", "send", "sleep"}
    /\ tpc' = [tpc EXCEPT ![t] = "done"]
    /\ bcast' = [bcast EXCEPT ![t] =
                   IF tpc[t] = "send" THEN [@ EXCEPT !.res = "cancelled"] ELSE NoFrame]
    /\ src_rate' = [src_rate EXCEPT ![t] = IF tpc[t] = "send" THEN @ ELSE 0]
    /\ UNCHANGED <<registry, ep, recv, stalled, is_running, task_ref, cancel_req,
                   now, callers>>
    /\ UNCHANGED <<unreg, accept_failed, direct, auth, stats_out>>

\* ---------------------------------------------------------------- auth: POST /register
\* an email address is <<local part, domain>>
Locals == {"admin", "Admin", "new", "ops"}
Domains == {"example.com", "EXAMPLE.COM"}
Passwords == {"password1", "password2"}
Names == {"Ann"}

\* EmailStr validation hands the handler the address with its domain in lower
\* case and its local part as sent
EmailStr(email) ==
    <<email[1], IF email[2] = "EXAMPLE.COM" THEN "example.com" ELSE email[2]>>

\* UserRegister: the request body after validation
UserRegister(email, password, name) ==
    [email |-> EmailStr(email), password |-> password, name |-> name]

\* get_password_hash(): never the password itself
get_password_hash(password) == <<"bcrypt", password>>

\* the two users the module is loaded with
SeedUsers ==
    LET admin == <<"admin", "example.com">>
        demo  == <<"demo", "example.com">>
    IN  [e \in {admin, demo} |->
           IF e = admin
           THEN [id |-> 1, email |-> admin, name |-> "Admin User",
                 password_hash |-> get_password_hash("admin123"), role |-> "admin"]
           ELSE [id |-> 2, email |-> demo, name |-> "Demo User",
                 password_hash |-> get_password_hash("demo1234"), role |-> "viewer"]]

NoUser == [id |-> 0]

\* the record register() builds: id from the size of the store, role viewer
new_user(db, user) ==
    [id |-> Cardinality(DOMAIN db) + 1, email |-> user.email, name |-> user.name,
     password_hash |-> get_password_hash(user.password), role |-> "viewer"]

\* a register() without its `if user.email in USERS_DB` check
register_overwrite(db, user) ==
    [db |-> [e \in DOMAIN db \cup {user.email} |->
               IF e = user.email THEN new_user(db, user) ELSE db[e]],
     status |-> 201, detail |-> "", user |-> new_user(db, user)]

\* register(user): 400 for an email that is a key of the store, else the new
\* record is stored under the email and returned with 201
register(db, user) ==
    IF user.email \in DOMAIN db
    THEN [db |-> db, status |-> 400, detail |-> "Email already registered",
          user |-> NoUser]
    ELSE [db |-> [e \in DOMAIN db \cup {user.email} |->
                    IF e = user.email THEN new_user(db, user) ELSE db[e]],
          status |-> 201, detail |-> "", user |-> new_user(db, user)]

\* POST /api/v1/auth/register
Register ==
    \E l \in Locals, d \in Domains, pw \in Passwords, n \in Names :
        LET user == UserRegister(<<l, d>>, pw, n)
            r == register(USERS_DB, user)
        IN  /\ USERS_DB' = r.db
            /\ response' = [request |-> user, status |-> r.status,
                            detail |-> r.detail, user |-> r.user]
            /\ UNCHANGED <<registry, ep, recv, stalled, collector, callers>>
            /\ UNCHANGED <<src_rate, unreg, accept_failed, direct, stats_out>>

\* ---------------------------------------------------------------- specification
Init ==
    /\ active_connections = <<>>
    /\ connection_metadata = [c \in {} |-> 0]
    /\ ep = [c \in Conns |-> "new"]
    /\ recv = [c \in Conns |-> <<>>]
    /\ stalled = {}
    /\ is_running = FALSE
    /\ task_ref = 0
    /\ tpc = [t \in Tasks |-> "none"]
    /\ cancel_req = [t \in Tasks |-> FALSE]
    /\ bcast = [t \in Tasks |-> NoFrame]
    /\ now = 0
    /\ spc = [s \in Stoppers |-> "idle"]
    /\ swait = [s \in Stoppers |-> 0]
    /\ sstart = [s \in Stoppers |-> FALSE]
    /\ overlap = FALSE
    /\ src_rate = [t \in Tasks |-> 0]
    /\ unreg = {}
    /\ accept_failed = {}
    /\ psend = [c \in Conns |-> "idle"]
    /\ nrecv = [c \in Conns |-> 0]
    /\ ppc = [p \in Pubs |-> "idle"]
    /\ pframe = [p \in Pubs |-> NoFrame]
    /\ USERS_DB = SeedUsers
    /\ stats_out = get_connection_stats([active |-> <<>>, meta |-> <<>>])
    /\ response = [request |-> UserRegister(<<"", "">>, "", ""), status |-> 0,
                   detail |-> "", user |-> NoUser]

Next ==
    \/ \E c \in Conns : Connect(c)
    \/ \E c \in Conns : AcceptFail(c)
    \/ \E c \in Conns : Close(c)
    \/ \E c \in Conns : Stall(c)
    \/ Start
    \/ \E s \in Stoppers : StopCall(s)
    \/ \E s \in Stoppers : StopReturn(s)
    \/ \E t \in Tasks : TaskStart(t)
    \/ \E t \in Tasks : FetchOk(t)
    \/ \E t \in Tasks : FetchFail(t)
    \/ \E t \in Tasks : SendOk(t)
    \/ \E t \in Tasks : SendFail(t)
    \/ \E t \in Tasks : SleepDone(t)
    \/ \E t \in Tasks : Cancelled(t)

Spec == Init /\ [][Next]_vars


\* every step of a loop task is eventually taken once the event loop can take
\* it: a ready callback always runs, a fetch and a sleep always end, a write
\* ends unless its transport is stalled, and a finished task wakes its awaiter
Fairness ==
    /\ \A t \in Tasks : WF_vars(TaskStart(t))
    /\ \A t \in Tasks : WF_vars(FetchOk(t) \/ FetchFail(t))
    /\ \A t \in Tasks : WF_vars(SendOk(t) \/ SendFail(t))
    /\ \A t \in Tasks : WF_vars(SleepDone(t))
    /\ \A t \in Tasks : WF_vars(Cancelled(t))
    /\ \A s \in Stoppers : WF_vars(StopReturn(s))

FairSpec == Spec /\ Fairness

\* the same system with a metrics source whose every fetch fails
FailNext ==
    \/ \E c \in Conns : Connect(c)
    \/ \E c \in Conns : AcceptFail(c)
    \/ \E c \in Conns : Close(c)
    \/ \E c \in Conns : Stall(c)
    \/ Start
    \/ \E s \in Stoppers : StopCall(s)
    \/ \E s \in Stoppers : StopReturn(s)
    \/ \E t \in Tasks : TaskStart(t)
    \/ \E t \in Tasks : FetchFail(t)
    \/ \E t \in Tasks : SendOk(t)
    \/ \E t \in Tasks : SendFail(t)
    \/ \E t \in Tasks : SleepDone(t)
    \/ \E t \in Tasks : Cancelled(t)

FailSpec == Init /\ [][FailNext]_vars /\ Fairness

\* the registry under its direct callers: the endpoints with their acks, the
\* callers of send_personal_message() and of the broadcast helpers
DirectNext ==
    \/ \E c \in Conns : Connect(c)
    \/ \E c \in Conns : AcceptFail(c)
    \/ \E c \in Conns : Close(c)
    \/ \E c \in Conns : Receive(c)
    \/ \E c \in Conns : AckOk(c)
    \/ \E c \in Conns : AckFail(c)
    \/ \E c \in Conns : PersonalCall(c)
    \/ \E c \in Conns : PersonalOk(c)
    \/ \E c \in Conns : PersonalFail(c)
    \/ \E p \in Pubs : DirectCall(p)
    \/ \E p \in Pubs : DirectSendOk(p)
    \/ \E p \in Pubs : DirectSendFail(p)

DirectSpec == Init /\ [][DirectNext]_vars

\* the registry read by stats() between connects, disconnects and sends
StatsNext ==
    \/ \E c \in Conns : Connect(c)
    \/ \E c \in Conns : Close(c)
    \/ \E c \in Conns : PersonalCall(c)
    \/ \E c \in Conns : PersonalOk(c)
    \/ \E c \in Conns : PersonalFail(c)
    \/ Stats

StatsSpec == Init /\ [][StatsNext]_vars

\* the user store under any sequence of register requests
AuthNext == Register

AuthSpec == Init /\ [][AuthNext]_vars

\* ---------------------------------------------------------------- properties
\* c was written message m / how many copies of m were written to c
Got(c, m) == \E i \in 1..Len(recv[c]) : recv[c][i] = m
Copies(c, m) == Cardinality({i \in 1..Len(recv[c]) : recv[c][i] = m})
Registered == Range(active_connections)
Over(t) == bcast[t].res \in {"returned", "cancelled", "raised"}
\* the connections a broadcast call tried to write to
Attempted(t) == {c \in Conns : Got(c, bcast[t].message)} \cup bcast[t].failed
IsError(metrics) == "error" \in DOMAIN metrics

\* C1: once a broadcast call is over, every connection registered when it
\* began has been written the message or is no longer registered.
C1_DeliveredOrUnregistered ==
    \A t \in Tasks : Over(t) =>
        \A c \in bcast[t].snap : Got(c, bcast[t].message) \/ c \notin Registered

\* C2: the connections a broadcast call that returned has attempted to write
\* to are exactly those registered when it began.
C2_IteratesSnapshot ==
    \A t \in Tasks : bcast[t].res = "returned" => Attempted(t) = bcast[t].snap


\* a connection of the call's snapshot that is still owed the message with
\* nothing to excuse it: its own write has neither failed nor stalled, no
\* registry call ran during the fan-out and stop() has not cancelled the task
Pending(t, c) ==
    /\ bcast[t].res = "running"
    /\ c \in bcast[t].snap
    /\ ~Got(c, bcast[t].message)
    /\ c \notin bcast[t].failed
    /\ c \notin stalled
    /\ ~bcast[t].conc
    /\ ~cancel_req[t]

\* C3: a write that never completes stalls only its own connection: every
\* other connection of the broadcast is still eventually written the message.
C3_NoHeadOfLineBlocking ==
    \A t \in Tasks : \A c \in Conns : Pending(t, c) ~> ~Pending(t, c)

\* a broadcast to N connections that returned with exactly one failed write
\* and no registry call since it began / what then holds
C4Pre(t) ==
    bcast[t].res = "returned" /\ ~bcast[t].conc /\ Cardinality(bcast[t].failed) = 1

C4Post(t) ==
    /\ \A c \in bcast[t].snap \ bcast[t].failed : Copies(c, bcast[t].message) = 1
    /\ \A c \in bcast[t].failed :
         /\ Copies(c, bcast[t].message) = 0
         /\ c \notin Registered
         /\ c \notin DOMAIN connection_metadata
         /\ Cardinality({i \in 1..Len(bcast[t].disconnected) :
                           bcast[t].disconnected[i] = c}) = 1
    /\ get_connection_stats(Reg).active_connections = Cardinality(bcast[t].snap) - 1

\* C4: when a broadcast to N connections returns, with no concurrent registry
\* call and exactly one failed write, each of the other N-1 has been written
\* one copy, the failing one has been unregistered once, and stats() reports
\* N-1 active connections.
C4_OneFailure ==
    [][\A t \in Tasks : (bcast[t].res = "running" /\ C4Pre(t)') => C4Post(t)']_vars

C4_Witness ==
    \E t \in Tasks :
        /\ bcast[t].res = "returned" /\ ~bcast[t].conc
        /\ Cardinality(bcast[t].failed) = 1
        /\ Cardinality(bcast[t].snap) >= 2
        /\ \E c \in bcast[t].snap : Copies(c, bcast[t].message) = 1

\* C5: a failed write is never raised out of broadcast, and when the call has
\* returned every connection whose write failed is unregistered.
C5_FailureNotPropagated ==
    \A t \in Tasks :
        /\ bcast[t].res # "raised"
        /\ bcast[t].res = "returned" => bcast[t].failed \cap Registered = {}

C5_Witness ==
    \E t \in Tasks :
        /\ bcast[t].res = "returned"
        /\ Cardinality(bcast[t].failed) >= 2
        /\ bcast[t].failed \cap Registered = {}


\* C6: is_running is true exactly when one loop task is active.
C6_RunningIffOneTask ==
    is_running <=> Cardinality(ActiveTasks) = 1

\* C7: while start() and stop() are called one after another, at most one
\* loop task is active, a running Collector's only task is the one start()
\* created, and once stop() has returned none is.
C7_SequentialLifecycle ==
    ~overlap =>
        /\ Cardinality(ActiveTasks) <= 1
        /\ is_running => ActiveTasks = {task_ref}
        /\ (~is_running /\ \A s \in Stoppers : spc[s] # "await") => ActiveTasks = {}

C7_Witness ==
    /\ ~overlap
    /\ tpc[1] = "done"
    /\ is_running
    /\ ActiveTasks = {2}
    /\ now >= 2

\* C8: when stop() has returned the task it cancelled has ended, and until a
\* start() creates a new task no loop task is left that can fetch or broadcast
\* (any task still unfinished has its cancellation pending).
C8_StopAwaitsTask ==
    \A s \in Stoppers : spc[s] = "returned" =>
        /\ swait[s] # 0 => tpc[swait[s]] = "done"
        /\ ~sstart[s] => \A t \in ActiveTasks : cancel_req[t]

C8_Witness ==
    \E s \in Stoppers :
        /\ spc[s] = "returned" /\ ~sstart[s]
        /\ swait[s] # 0 /\ cancel_req[swait[s]] /\ tpc[swait[s]] = "done"
        /\ bcast[swait[s]].res = "cancelled"
        /\ ActiveTasks = {}

\* C9: an iteration whose fetch failed makes no broadcast (no broadcast call
\* carries the error dict, none is written to a connection), and no task ends
\* otherwise than by cancellation.
C9_NoBroadcastOnFailedFetch ==
    /\ \A t \in Tasks : bcast[t].res # "none" => ~IsError(bcast[t].message.data)
    /\ \A c \in Conns : \A i \in 1..Len(recv[c]) : ~IsError(recv[c][i].data)
    /\ \A t \in Tasks : tpc[t] = "done" => cancel_req[t]

\* C10: with a source whose every fetch fails, a loop task ends only by
\* cancellation, after every sleep it polls again (unless cancelled, or the
\* poll budget of the model is used up), and a stop() that awaits the task
\* eventually returns, wherever in the loop the task was.
C10_FailingSourceStops ==
    /\ [](\A t \in Tasks : tpc[t] = "done" => cancel_req[t])
    /\ \A t \in Tasks :
         (tpc[t] = "sleep") ~> (tpc[t] = "fetch" \/ cancel_req[t] \/ now = MaxPolls)
    /\ \A s \in Stoppers : (spc[s] = "await") ~> (spc[s] = "returned")

C10_Witness ==
    \E s \in Stoppers : \E t \in Tasks :
        /\ spc[s] = "returned" /\ swait[s] = t
        /\ bcast[t].res = "cancelled"
        /\ IsError(bcast[t].message.data)
        /\ now = MaxPolls

\* the connections whose connect() has completed
Joined == {c \in Conns : ep[c] \in {"open", "ack", "closed", "raised"}}

\* C11: stats().active_connections (and get_connection_count()) is the number
\* of connections that have been registered and for which disconnect() has
\* not been called since.
C11_ActiveCount ==
    /\ get_connection_stats(Reg).active_connections = Cardinality(Joined \ unreg)
    /\ get_connection_count(Reg) = Cardinality(Joined \ unreg)

C11_Witness ==
    /\ get_connection_stats(Reg).active_connections = 1
    /\ Cardinality(Joined) = 2
    /\ Cardinality(unreg) = 1
    /\ \E c \in unreg : ep[c] = "closed"

\* C12: disconnect() for a connection that is not registered raises nothing
\* and changes nothing: the endpoint's except branch, the except branch of
\* send_personal_message() and the clean-up loop of broadcast() all end
\* normally and leave the list, the counters and stats() as they were.
C12_UnregisterIdempotent ==
    [][/\ \A c \in Conns \ Registered :
            /\ disconnect(Reg, c) = Reg
            /\ ~disconnect_raises(Reg, c)
            /\ (ep[c] \in {"open", "ack"} /\ ep'[c] \notin {"open", "ack"}) =>
                 /\ ep'[c] = "closed"
                 /\ UNCHANGED registry
                 /\ get_connection_stats(Reg)' = get_connection_stats(Reg)
            /\ (psend[c] = "write" /\ psend'[c] # "write") =>
                 /\ psend'[c] = "returned"
                 /\ UNCHANGED registry
                 /\ get_connection_stats(Reg)' = get_connection_stats(Reg)
       /\ \A p \in Pubs : (pframe[p].res = "running" /\ pframe'[p].res # "running") =>
            /\ pframe'[p].res = "returned"
            /\ Registered' = Registered \ Range(pframe'[p].disconnected)
            /\ \A o \in Registered' : connection_metadata'[o] >= connection_metadata[o]
      ]_vars

C12_Witness ==
    \E c \in Conns :
        /\ ep[c] = "closed" /\ psend[c] = "returned" /\ recv[c] = <<>>
        /\ c \in unreg /\ c \notin Registered
        /\ \E p \in Pubs : pframe[p].res = "returned" /\ c \in Range(pframe[p].disconnected)

\* C13: a collection tick whose fetch returned request_rate v and whose
\* broadcast returned with every write succeeding (and no registry call during
\* the fan-out) has written to each of the N >= 1 registered connections one
\* envelope of type metrics_update whose data.request_rate is v.
C13_TickDelivers ==
    [][\A t \in Tasks :
         (/\ bcast[t].res = "running" /\ bcast'[t].res = "returned"
          /\ ~bcast'[t].conc /\ bcast'[t].failed = {}
          /\ src_rate'[t] \in Rates)
         => /\ bcast'[t].snap # {}
            /\ bcast'[t].snap = Registered'
            /\ bcast'[t].message.type = "metrics_update"
            /\ bcast'[t].message.data.request_rate = src_rate'[t]
            /\ \A c \in bcast'[t].snap :
                 Cardinality({i \in 1..Len(recv'[c]) :
                                recv'[c][i] = bcast'[t].message}) = 1
      ]_vars

C13_Witness ==
    \E t \in Tasks :
        /\ bcast[t].res = "returned" /\ ~bcast[t].conc /\ bcast[t].failed = {}
        /\ src_rate[t] \in Rates
        /\ Cardinality(bcast[t].snap) = MaxConns
        /\ \A c \in bcast[t].snap :
             /\ Copies(c, bcast[t].message) = 1
             /\ bcast[t].message.data.request_rate = src_rate[t]

\* C14: when the write of send_personal_message() fails, the call returns
\* without raising, the connection is no longer registered and has no
\* bookkeeping, no counter has grown, and every other connection keeps its
\* registration and its counter.
C14_SendFailure ==
    [][\A c \in Conns :
         (psend[c] = "write" /\ psend'[c] # "write" /\ recv'[c] = recv[c])
         => /\ psend'[c] = "returned"
            /\ c \notin Registered'
            /\ c \notin DOMAIN connection_metadata'
            /\ \A o \in Conns \ {c} :
                 /\ o \in Registered' <=> o \in Registered
                 /\ o \in DOMAIN connection_metadata' <=> o \in DOMAIN connection_metadata
                 /\ o \in DOMAIN connection_metadata =>
                      connection_metadata'[o] = connection_metadata[o]
            /\ get_connection_stats(Reg)'.total_messages_sent
                 <= get_connection_stats(Reg).total_messages_sent
      ]_vars

C14_Witness ==
    \E c \in Conns : \E o \in Conns \ {c} :
        /\ psend[c] = "returned" /\ ~Got(c, personal_message)
        /\ ep[c] \in {"open", "ack"} /\ unreg = {c}
        /\ o \in Registered /\ connection_metadata[o] > 0

\* C15: a connection whose accept handshake raised has its endpoint ended by
\* that exception, is in neither the list nor the bookkeeping, and the step at
\* which the handshake failed left the registry as it was.
C15_HandshakeFailure ==
    [][\A c \in accept_failed' :
         /\ ep'[c] = "refused"
         /\ c \notin Registered'
         /\ c \notin DOMAIN connection_metadata'
         /\ c \notin accept_failed =>
              /\ UNCHANGED registry
              /\ get_connection_stats(Reg)' = get_connection_stats(Reg)
      ]_vars

C15_Witness ==
    \E c \in accept_failed : \E o \in Conns \ {c} :
        /\ ep[c] = "refused"
        /\ o \in Registered /\ connection_metadata[o] > 0

\* C16: a broadcast call that returned has attempted the write to every
\* connection that was registered when it began and is still registered.
C16_RegisteredIsAttempted ==
    \A t \in Tasks : bcast[t].res = "returned" =>
        \A c \in bcast[t].snap \cap Registered : c \in Attempted(t)

\* C17: the live list holds no connection twice, the bookkeeping has an entry
\* for exactly the connections of the list, stats() counts each once, and a
\* connection that was registered and is no longer in the list has had
\* disconnect() called for it.
C17_RegistryConsistent ==
    /\ Cardinality(Registered) = Len(active_connections)
    /\ DOMAIN connection_metadata = Registered
    /\ get_connection_stats(Reg).active_connections = Cardinality(Registered)
    /\ Registered \subseteq Joined
    /\ Joined \ Registered \subseteq unreg

C17_Witness ==
    /\ Len(active_connections) = 1
    /\ Cardinality(unreg) = 1
    /\ \E c \in Registered : connection_metadata[c] >= 2 /\ psend[c] = "returned"
    /\ \E p \in Pubs : pframe[p].res = "returned" /\ pframe[p].failed # {}

\* C18: no broadcast call ends with an exception, whether made by the loop or
\* by a direct caller of a helper, and no loop task ends otherwise than by
\* cancellation.
C18_NoErrorEscapes ==
    /\ \A p \in Pubs : ppc[p] # "raised" /\ pframe[p].res # "raised"
    /\ \A t \in Tasks : bcast[t].res # "raised"
    /\ \A t \in Tasks : tpc[t] = "done" => cancel_req[t]

EnvelopeTypes ==
    {"topology_update", "metrics_update", "alert", "cert_expiry_warning", "ack"}

WireShape(m) ==
    /\ m.type \in EnvelopeTypes
    /\ {"timestamp", "data"} \subseteq DOMAIN m
    /\ "severity" \in DOMAIN m => m.type = "alert"

\* C19: every message written to a connection has a type of the enumeration,
\* a timestamp field and a data field, and a severity field only when it is
\* an alert.
C19_EnvelopeShape ==
    \A c \in Conns : \A i \in 1..Len(recv[c]) : WireShape(recv[c][i])

\* C20: a register request whose email is a key of the store is answered 400
\* 'Email already registered' and leaves the store as it was; every record is
\* stored under its own email, and no request changes or removes the record
\* of an existing user.
C20_DuplicateEmailRejected ==
    [][/\ response'.request.email \in DOMAIN USERS_DB =>
            /\ response'.status = 400
            /\ response'.detail = "Email already registered"
            /\ USERS_DB' = USERS_DB
       /\ \A e \in DOMAIN USERS_DB :
            e \in DOMAIN USERS_DB' /\ USERS_DB'[e] = USERS_DB[e]
       /\ \A e \in DOMAIN USERS_DB' : USERS_DB'[e].email = e
      ]_auth

C20_Witness ==
    /\ response.status = 400
    /\ response.request.email \in DOMAIN USERS_DB \ DOMAIN SeedUsers
    /\ USERS_DB[response.request.email].password_hash
         # get_password_hash(response.request.password)
    /\ Cardinality(DOMAIN USERS_DB) = Cardinality(DOMAIN SeedUsers) + 2

\* C21: a step of a broadcast call that does not end the call leaves the
\* list and the bookkeeping's keys as they are (a connection whose write
\* failed is still registered unless somebody else removed it); the step that
\* ends the call removes the connections of its local list, which holds every
\* failed connection and none twice, and nothing else; with no registry call
\* from outside during the fan-out, every connection registered when the call
\* began has been attempted by then.
C21_CleanupAfterFanout ==
    [][\A t \in Tasks :
         /\ (bcast[t].res = "running" /\ bcast'[t].res = "running"
             /\ bcast'[t].it # bcast[t].it) =>
              /\ active_connections' = active_connections
              /\ DOMAIN connection_metadata' = DOMAIN connection_metadata
              /\ bcast'[t].failed \subseteq Range(bcast'[t].disconnected)
         /\ (bcast[t].res = "running" /\ bcast'[t].res = "returned") =>
              /\ Registered' = Registered \ Range(bcast'[t].disconnected)
              /\ bcast'[t].failed \subseteq Range(bcast'[t].disconnected)
              /\ Cardinality(Range(bcast'[t].disconnected)) = Len(bcast'[t].disconnected)
              /\ bcast'[t].failed \cap Registered' = {}
              /\ ~bcast'[t].conc => Attempted(t)' = bcast'[t].snap
      ]_vars

C21_Witness ==
    \E t \in Tasks :
        /\ tpc[t] = "send" /\ bcast[t].res = "running" /\ ~bcast[t].conc
        /\ bcast[t].failed # {}
        /\ bcast[t].failed \subseteq Registered
        /\ bcast[t].it = MaxConns

\* C22: a loop task begins a fetch only as its first step or out of a sleep;
\* an iteration, whether its fetch or its broadcast succeeded or failed, ends
\* in the sleep; and a task cancelled while it sleeps does nothing more but
\* end, which it does without the sleep having to elapse.
C22_SleepBetweenPolls ==
    /\ [][\A t \in Tasks :
            /\ (tpc'[t] = "fetch" /\ tpc[t] # "fetch") => tpc[t] \in {"created", "sleep"}
            /\ (tpc[t] = "fetch" /\ <<src_rate[t], bcast[t]>>' # <<src_rate[t], bcast[t]>>)
                 => tpc'[t] \in {"send", "sleep", "done"}
            /\ tpc[t] = "send" => tpc'[t] \in {"send", "sleep", "done"}
            /\ tpc[t] = "sleep" => tpc'[t] \in {"sleep", "fetch", "done"}
            /\ (tpc[t] \in {"fetch", "send", "sleep"} /\ tpc'[t] = "done") => cancel_req[t]
            /\ (tpc[t] = "sleep" /\ cancel_req[t]) =>
                 /\ tpc'[t] \in {"sleep", "done"}
                 /\ tpc'[t] = "done" => UNCHANGED <<now, recv, registry>>
         ]_vars
    /\ \A t \in Tasks : (tpc[t] = "sleep" /\ cancel_req[t]) ~> (tpc[t] = "done")

C22_Witness ==
    \E t \in Tasks : \E s \in Stoppers :
        /\ tpc[t] = "sleep" /\ cancel_req[t]
        /\ spc[s] = "await" /\ swait[s] = t
        /\ bcast[t].res = "returned" /\ bcast[t].failed # {}
        /\ now < MaxPolls

\* C23: at the step where a fetch has succeeded, the loop calls broadcast
\* exactly when the list is not empty then: with an empty list there is no
\* broadcast frame, nothing is written and the task goes to its sleep.
C23_BroadcastOnlyIfConnected ==
    [][\A t \in Tasks :
         (tpc[t] = "fetch" /\ tpc'[t] \notin {"fetch", "done"} /\ src_rate'[t] \in Rates)
         => IF Registered = {}
            THEN /\ bcast'[t] = NoFrame
                 /\ tpc'[t] = "sleep"
                 /\ UNCHANGED <<recv, registry>>
            ELSE /\ bcast'[t].res = "running"
                 /\ bcast'[t].snap = Registered
                 /\ bcast'[t].message = metrics_update(collect_ok(src_rate'[t]))
                 /\ tpc'[t] = "send"
      ]_vars

C23_Witness ==
    \E t \in Tasks :
        /\ tpc[t] = "sleep" /\ ~cancel_req[t]
        /\ src_rate[t] \in Rates
        /\ bcast[t] = NoFrame
        /\ Registered = {}
        /\ now = MaxPolls

\* the writes to c that succeeded through send_personal_message or broadcast
Writes(c) == Cardinality({i \in 1..Len(recv[c]) : recv[c][i] # ack})

\* C24: a connection's messages_sent is 0 at registration, never decreases
\* while it stays registered, changes only together with a write to it, and
\* is always the number of writes to it that succeeded through
\* send_personal_message or broadcast.
C24_MessagesSentCounts ==
    [][\A c \in Conns :
         /\ (c \in Registered' /\ c \notin Registered) => connection_metadata'[c] = 0
         /\ c \in Registered' => connection_metadata'[c] = Writes(c)'
         /\ (c \in Registered' /\ c \in Registered) =>
              /\ connection_metadata'[c] >= connection_metadata[c]
              /\ connection_metadata'[c] - connection_metadata[c] = Writes(c)' - Writes(c)
              /\ connection_metadata'[c] - connection_metadata[c] \in {0, 1}
      ]_vars

C24_Witness ==
    \E c \in Registered :
        /\ connection_metadata[c] = 2
        /\ Len(recv[c]) = 3
        /\ psend[c] = "returned"
        /\ \E o \in Conns \ {c} : psend[o] = "returned" /\ recv[o] = <<>> /\ o \in unreg

RECURSIVE SumWrites(_)
SumWrites(S) ==
    IF S = {} THEN 0
    ELSE LET c == CHOOSE x \in S : TRUE IN Writes(c) + SumWrites(S \ {c})

\* C25: a stats() call changes nothing of the registry and returns the number
\* of registered connections and, as total_messages_sent, the sum of the
\* counters of the connections registered then; when a connection is
\* unregistered its counter leaves the total.
C25_StatsReadsOnly ==
    [][/\ stats_out' # stats_out =>
            /\ UNCHANGED <<registry, ep, recv, psend>>
            /\ stats_out'.active_connections = Cardinality(Registered)
            /\ stats_out'.total_messages_sent = SumMeta(connection_metadata, Registered)
            /\ stats_out'.total_messages_sent = SumWrites(Registered)
       /\ \A c \in Registered \ Registered' :
            get_connection_stats(Reg)'.total_messages_sent
              = get_connection_stats(Reg).total_messages_sent - connection_metadata[c]
      ]_vars

C25_Witness ==
    /\ stats_out = get_connection_stats(Reg)
    /\ stats_out.total_messages_sent = 1
    /\ stats_out.active_connections = 1
    /\ \E c \in unreg : Writes(c) = 1 /\ c \notin Registered

\* C26: when receive_text() or the ack's send_json() raises in the endpoint's
\* loop, the step that leaves the loop has called disconnect() and the
\* connection is out of the list and the bookkeeping; a connection whose
\* handler has ended is never registered.
C26_HandlerEndUnregisters ==
    /\ [][\A c \in Conns :
            (ep[c] \in {"open", "ack"} /\ ep'[c] \notin {"open", "ack"}) =>
                /\ ep'[c] = "closed"
                /\ c \in unreg'
                /\ c \notin Registered'
                /\ c \notin DOMAIN connection_metadata']_vars
    /\ [](\A c \in Conns :
            ep[c] \in {"closed", "raised"} =>
                c \notin Registered /\ c \notin DOMAIN connection_metadata)

C26_Witness ==
    \E c \in Conns :
        /\ ep[c] = "closed"
        /\ nrecv[c] = 1
        /\ \A i \in DOMAIN recv[c] : recv[c][i] # ack
        /\ c \in unreg
        /\ c \notin Registered
        /\ \E d \in Registered : d # c /\ ep[d] = "open"

\* the Collector is Stopped: the flag is clear and it holds no task or a task
\* that has ended, and no stop() is in progress
Stopped ==
    /\ ~is_running
    /\ task_ref = 0 \/ tpc[task_ref] = "done"
    /\ \A s \in Stoppers : spc[s] # "await"

\* C27: in every state where the Collector is Stopped (never started, or
\* stopped by an earlier stop() that has returned), a stop() call can be made
\* and every such call returns at once without raising, leaves the flag
\* clear, creates and cancels no task and touches nothing else.
C27_StopOnStoppedIsNoop ==
    \A s \in Stoppers :
        Stopped =>
            /\ ENABLED StopCall(s)
            /\ ~ENABLED (/\ StopCall(s)
                         /\ ~(/\ is_running' = FALSE
                              /\ spc'[s] = "returned"
                              /\ UNCHANGED <<task_ref, tpc, cancel_req, bcast, now>>
                              /\ UNCHANGED <<registry, ep, recv>>))

C27_Witness ==
    /\ Stopped
    /\ task_ref # 0
    /\ cancel_req[task_ref]
    /\ \E s \in Stoppers : spc[s] = "returned" /\ swait[s] = task_ref

\* the writes awaiting the transport of c: broadcast writes of loop tasks and
\* of direct callers, personal sends, and the endpoint's acknowledgement
InFlight(c) ==
    Cardinality({t \in Tasks : tpc[t] = "send" /\ bcast[t].cur = c})
    + Cardinality({p \in Pubs : ppc[p] = "send" /\ pframe[p].cur = c})
    + (IF psend[c] = "write" THEN 1 ELSE 0)
    + (IF ep[c] = "ack" THEN 1 ELSE 0)

\* C28: at no time are two transport writes in flight on the same connection.
C28_OneWriterPerConnection ==
    \A c \in Conns : InFlight(c) <= 1

\* C29: a broadcast call writes its message to no connection more than once,
\* whatever connects and disconnects happen while it runs.
C29_AtMostOnePerCall ==
    /\ \A t \in Tasks : \A c \in Conns :
         bcast[t] # NoFrame => Copies(c, bcast[t].message) <= 1
    /\ \A t \in Tasks : \A c \in Conns :
         (tpc[t] = "send" /\ bcast[t].cur = c) => ~Got(c, bcast[t].message)

C29_Witness ==
    \E t \in Tasks :
        /\ bcast[t].res = "returned"
        /\ bcast[t].conc
        /\ \E c \in Registered \ bcast[t].snap : Copies(c, bcast[t].message) = 1
        /\ \E d \in bcast[t].snap \cap unreg :
             d \notin Registered /\ Copies(d, bcast[t].message) = 1

\* C30: a start() on a Collector whose stop() has returned sets the flag and
\* creates a task that is not the cancelled one, and that task is then the
\* only active one; a task whose cancellation was requested goes nowhere but
\* to its end and an ended task stays ended; every created task reaches its
\* first fetch unless it is cancelled first.
C30_Restartable ==
    /\ [][(Stopped /\ task_ref # 0 /\ is_running') =>
            /\ task_ref' # task_ref
            /\ tpc[task_ref'] = "none"
            /\ tpc'[task_ref'] = "created"
            /\ ~cancel_req'[task_ref']
            /\ tpc'[task_ref] = "done"
            /\ ActiveTasks' = {task_ref'}]_vars
    /\ [][\A t \in Tasks :
            /\ cancel_req[t] => cancel_req'[t] /\ tpc'[t] \in {tpc[t], "done"}
            /\ tpc[t] = "done" => tpc'[t] = "done"]_vars
    /\ \A t \in Tasks :
         (tpc[t] = "created") ~> (tpc[t] = "fetch" \/ cancel_req[t] \/ now = MaxPolls)

C30_Witness ==
    /\ is_running
    /\ ~overlap
    /\ task_ref = 2
    /\ tpc[2] = "fetch"
    /\ tpc[1] = "done"
    /\ cancel_req[1]
    /\ ActiveTasks = {2}
    /\ \E s \in Stoppers : spc[s] = "returned" /\ swait[s] = 1

====
